---- MODULE Spec2Model ----
(***************************************************************************)
(* Usage aggregation of llm-usage-analyzer: scanClaudeUsage                *)
(* (packages/cli/src/parsers/claude.ts) folds the lines of the session     *)
(* files under the projects directory into a UsageReport.                  *)
(*                                                                         *)
(* Time is counted in ticks, two ticks to a calendar day.  The same        *)
(* unchanged files are scanned by two runs (Runs), each started at its own *)
(* clock reading, so that statements relating two scans of the same files  *)
(* can be stated over one behaviour.  Enumerating the projects directory   *)
(* (readdirSync, statSync, glob) is taken to succeed.                      *)
(*                                                                         *)
(* The dashboard side (services/analysisService.ts, trendService.ts) is    *)
(* modelled by three further specifications over their own variables:      *)
(* SpecCost (calculateAnalysis), SpecPlanFit (analyzePlanFit) and          *)
(* SpecTrend (analyzeUsageTrends).  Money is counted in micro-dollars,     *)
(* tokens in thousands, prices in milli-dollars per million tokens, so     *)
(* that (tokens / 1e6) * price is the product of the two integers.         *)
(*                                                                         *)
(* The loaders of report files (the analyze command of the CLI and the     *)
(* Uploader), the local server, the storage service and the App's view     *)
(* handlers have a specification each: SpecLoad, SpecServe, SpecStorage    *)
(* and SpecApp.  Every specification pins the variables of the others.     *)
(***************************************************************************)
EXTENDS Integers, Sequences, FiniteSets, TLC

\* ------------------------------------------------------------------ bounds
MaxFiles == 2
MaxLines == 2
MaxTime == 4

Runs == {1, 2}
Times == 1 .. MaxTime

\* --------------------------------------------------------- program values
\* `let startDate: Date | null = null`: the absent window bound.
Null == 0
\* `new Date(0)`: initial value of maxDate.
Epoch == 0
\* An optional numeric field that the JSON record does not carry.
Absent == -1

\* entry.timestamp: missing or empty (falsy), an ISO string, or a JSON number.
Timestamps ==
    {[kind |-> "none", t |-> 0]}
      \cup {[kind |-> k, t |-> t] : k \in {"iso", "num"}, t \in Times}

\* entry.message.model: "" stands for a missing or empty id.
ModelIds == {"", "m1"}

\* entry.message.usage payloads: every field optional.
UsagePayloads ==
    { [input_tokens |-> Absent, output_tokens |-> Absent,
       cache_read_input_tokens |-> Absent, cache_creation_input_tokens |-> Absent],
      [input_tokens |-> 2, output_tokens |-> 1,
       cache_read_input_tokens |-> 1, cache_creation_input_tokens |-> Absent] }

NoUsage ==
    [input_tokens |-> Absent, output_tokens |-> Absent,
     cache_read_input_tokens |-> Absent, cache_creation_input_tokens |-> Absent]

\* The value JSON.parse yields for a line: json = "null" is the null result of
\* parseJsonlLine, "nousage" a record without message.usage, "usage" a record
\* with a message.usage object.
NullEntry ==
    [json |-> "null", timestamp |-> [kind |-> "none", t |-> 0], model |-> "",
     usage |-> NoUsage]

\* The usable records.  A record with an empty usage object is drawn without
\* a model id, and a record whose timestamp is a JSON number with one model
\* and one payload: what the latter adds is the failure at the date key,
\* whatever else it carries.
Entries ==
    {[json |-> "nousage", timestamp |-> ts, model |-> "", usage |-> NoUsage] :
        ts \in {[kind |-> "none", t |-> 0]}}
      \cup {e \in [json : {"usage"}, timestamp : Timestamps, model : ModelIds,
                    usage : UsagePayloads] :
              /\ e.timestamp.kind # "num"
              /\ e.usage.input_tokens = Absent => e.model = ""}
      \cup {[json |-> "usage", timestamp |-> ts, model |-> "m1", usage |-> u] :
              ts \in {x \in Timestamps : x.kind = "num"},
              u \in {p \in UsagePayloads : p.input_tokens # Absent}}

\* One line of a session file: blank text, text that is not JSON, or JSON text.
Lines ==
    {[text |-> x, entry |-> NullEntry] : x \in {"blank", "garbage"}}
      \cup {[text |-> "json", entry |-> e] : e \in Entries}

NoLine == [text |-> "none", entry |-> NullEntry]

\* ScanOptions (types.ts): days, startDate, endDate, verbose.  With days given,
\* startDate is not looked at (the else-if of line 80), so it is left out.
OptionSets ==
    {o \in [days : {0, 1}, startDate : {Null, 2}, endDate : {Null, 3},
            verbose : BOOLEAN] : o.days # 0 => o.startDate = Null}

\* The clock readings at which the two runs start.
StartClock == [r \in Runs |-> 2 + r]

VARIABLES
    options,     \* the ScanOptions of the call
    dirExists,   \* whether PROJECTS_DIR exists
    now,         \* now[r]: clock reading when run r starts
    pc,          \* position of the scan
    fileNo,      \* number of session files enumerated so far
    lineNo,      \* number of lines of session files laid out so far
    line,        \* the line at the file cursor
    readFailed,  \* files whose readFileSync threw
    scan,        \* scan[r]: locals, report and progress of run r
    obs          \* obs[r]: record of what run r was given (history)

VARIABLES
    data,        \* the UsageReport shown by the dashboard, or NoReport
    analysis,    \* calculateAnalysis(data) as the dashboard memoizes it
    lastLoad,    \* how the report relates to the one it replaced (history)
    currentPlan, \* the optional second argument of analyzePlanFit
    planFit,     \* the PlanFitResult
    reports,     \* the stored reports handed to the trend view
    trends       \* analyzeUsageTrends(reports)

VARIABLES
    file,        \* the report file and the options given to a loader
    cli,         \* what the analyze command of the CLI did with the file
    upload       \* what the Uploader's processFile did with the file

VARIABLES
    served,      \* options.days of the running serve command
    request,     \* the last request the local server handled
    response     \* its response, with the scan options the handler used

VARIABLES
    viewMode,        \* App state: 'uploader' | 'dashboard' | 'trends'
    currentReportId, \* App state: id of the report on display, or NoId
    savedReports,    \* App state: the history as the App last read it
    showHistory,     \* App state: whether the history menu is open
    isLiveData,      \* App state: whether data came from the local server
    history,         \* localStorage['llm_usage_history'] as a list
    nextId           \* the next id generateId yields

scanVars == <<options, dirExists, now, pc, fileNo, lineNo, line, readFailed, scan, obs>>
dashVars == <<data, analysis, lastLoad, currentPlan, planFit, reports, trends>>
cliVars == <<file, cli, upload>>
serveVars == <<served, request, response>>
appVars == <<viewMode, currentReportId, savedReports, showHistory, isLiveData, history, nextId>>
vars == <<scanVars, dashVars, cliVars, serveVars, appVars>>

\* ------------------------------------------------------------- helpers
\* Destructuring default `= 0` of an absent numeric field.
Default(v) == IF v = Absent THEN 0 ELSE v

\* JavaScript truthiness of entry.timestamp.
Truthy(timestamp) == timestamp.kind # "none"

\* timestamp.split('T')[0]: the date portion of an ISO timestamp.
DateKey(t) == t \div 2

\* parseJsonlLine: null for blank text and for text JSON.parse rejects.
parseJsonlLine(l) ==
    IF l.text = "blank" THEN NullEntry
    ELSE IF l.text = "garbage" THEN NullEntry
    ELSE l.entry

\* HasUsage testing the parse result alone (`if (!entry) continue`).
HasUsage_NotNull(entry) == entry.json # "null"

\* Line 155: `entry?.message?.usage` is there.
HasUsage(entry) == entry.json = "usage"

\* isWithinDateRange with the end bound exclusive.
isWithinDateRange_ExclusiveEnd(timestamp, startDate, endDate) ==
    LET date == timestamp IN
    IF startDate # Null /\ date < startDate THEN FALSE
    ELSE IF endDate # Null /\ date >= endDate THEN FALSE
    ELSE TRUE

isWithinDateRange(timestamp, startDate, endDate) ==
    LET date == timestamp IN
    IF startDate # Null /\ date < startDate THEN FALSE
    ELSE IF endDate # Null /\ date > endDate THEN FALSE
    ELSE TRUE

\* Lines 72-86: the date window from the options and the clock.
StartDateOf(o, clock) ==
    IF o.days # 0 THEN clock - 2 * o.days
    ELSE IF o.startDate # Null THEN o.startDate
    ELSE Null

EndDateOf(o, clock) ==
    IF o.endDate # Null THEN o.endDate
    ELSE IF o.days # 0 THEN clock
    ELSE Null

\* Lines 65-120: progress, window, empty report, dayMap, minDate, maxDate.
InitScan(o, clock) ==
    [ startDate |-> StartDateOf(o, clock),
      endDate   |-> EndDateOf(o, clock),
      report    |->
         [ provider |-> "anthropic", source |-> "local_agent",
           period |-> [start |-> clock, end |-> clock],
           plan |-> [name |-> "Claude Pro", price_usd |-> 20, type |-> "subscription"],
           usage |->
             [ tokens   |-> [input |-> 0, output |-> 0, cached |-> 0, by_model |-> <<>>],
               messages |-> [count |-> 0, by_day |-> <<>>],
               sessions |-> [count |-> 0] ] ],
      dayMap    |-> <<>>,
      minDate   |-> clock,
      maxDate   |-> Epoch,
      progress  |-> [filesProcessed |-> 0, messagesProcessed |-> 0, errors |-> <<>>],
      aborted   |-> FALSE ]

\* CatchFileError with an empty catch block.
CatchFileError_Swallow(s, verbose, path) == [s EXCEPT !.aborted = TRUE]

\* Lines 205-209: the per-file catch; path is the file's index.
CatchFileError(s, verbose, path) ==
    [s EXCEPT !.aborted = TRUE,
              !.progress.errors =
                  IF verbose THEN Append(@, [msg |-> "Error reading", path |-> path])
                  ELSE @]

\* Bump with the zero record stored on every visit, not only on first sight.
Bump_AlwaysReset(map, key, zero, delta) ==
    [k \in DOMAIN map \cup {key} |->
        IF k = key THEN [f \in DOMAIN zero |-> zero[f] + delta[f]] ELSE map[k]]

\* obj[key] = obj[key] + delta with get-or-insert of a zero record.
Bump(map, key, zero, delta) ==
    LET old == IF key \in DOMAIN map THEN map[key] ELSE zero
    IN  [k \in DOMAIN map \cup {key} |->
            IF k = key THEN [f \in DOMAIN zero |-> old[f] + delta[f]] ELSE map[k]]

\* Lines 171-176.
UpdateDateRange(s, timestamp) ==
    IF Truthy(timestamp)
    THEN [s EXCEPT !.minDate = IF timestamp.t < @ THEN timestamp.t ELSE @,
                   !.maxDate = IF timestamp.t > @ THEN timestamp.t ELSE @]
    ELSE s

\* Lines 178-193.
AggregateTokens(s, model, input_tokens, output_tokens, cache_tokens) ==
    [s EXCEPT !.report.usage.tokens.input = @ + input_tokens,
              !.report.usage.tokens.output = @ + output_tokens,
              !.report.usage.tokens.cached = @ + cache_tokens,
              !.report.usage.tokens.by_model =
                  Bump(@, model, [input |-> 0, output |-> 0],
                       [input |-> input_tokens, output |-> output_tokens]),
              !.report.usage.messages.count = @ + 1,
              !.progress.messagesProcessed = @ + 1]

\* Lines 195-203; timestamp.split of a non-string throws into the file's catch.
AggregateDay(s, timestamp, input_tokens, output_tokens, verbose, path) ==
    IF ~Truthy(timestamp) THEN s
    ELSE IF timestamp.kind # "iso" THEN CatchFileError(s, verbose, path)
    ELSE [s EXCEPT !.dayMap =
             Bump(@, DateKey(timestamp.t), [count |-> 0, input |-> 0, output |-> 0],
                  [count |-> 1, input |-> input_tokens, output |-> output_tokens])]

\* Lines 153-204: the body of the line loop for one line.
AggregateLine(s, l, verbose, path) ==
    LET entry == parseJsonlLine(l)
        timestamp == entry.timestamp
        input_tokens == Default(entry.usage.input_tokens)
        output_tokens == Default(entry.usage.output_tokens)
        cache_tokens == Default(entry.usage.cache_read_input_tokens)
                          + Default(entry.usage.cache_creation_input_tokens)
        model == IF entry.model = "" THEN "unknown" ELSE entry.model
    IN  IF ~HasUsage(entry) THEN s
        ELSE IF Truthy(timestamp)
                  /\ ~isWithinDateRange(timestamp.t, s.startDate, s.endDate) THEN s
        ELSE AggregateDay(
                 AggregateTokens(UpdateDateRange(s, timestamp),
                                 model, input_tokens, output_tokens, cache_tokens),
                 timestamp, input_tokens, output_tokens, verbose, path)

\* The day map turned into an array and left in the order of its keys'
\* insertion, taken here as latest day first.
RECURSIVE SortByDate_Unsorted(_)
SortByDate_Unsorted(dayMap) ==
    IF DOMAIN dayMap = {} THEN <<>>
    ELSE LET first == CHOOSE d \in DOMAIN dayMap : \A e \in DOMAIN dayMap : d >= e
             rest == [d \in DOMAIN dayMap \ {first} |-> dayMap[d]]
         IN  <<[date |-> first, count |-> dayMap[first].count,
                input |-> dayMap[first].input, output |-> dayMap[first].output]>>
               \o SortByDate_Unsorted(rest)

\* Object.entries(dayMap) ... .sort by date: ascending date keys.
RECURSIVE SortByDate(_)
SortByDate(dayMap) ==
    IF DOMAIN dayMap = {} THEN <<>>
    ELSE LET first == CHOOSE d \in DOMAIN dayMap : \A e \in DOMAIN dayMap : d <= e
             rest == [d \in DOMAIN dayMap \ {first} |-> dayMap[d]]
         IN  <<[date |-> first, count |-> dayMap[first].count,
                input |-> dayMap[first].input, output |-> dayMap[first].output]>>
               \o SortByDate(rest)

\* FinalizeReport without the statement that sets period.end.
FinalizeReport_EndNotSet(s, clock) ==
    [s EXCEPT !.report.period.start = IF s.minDate # clock THEN s.minDate ELSE @,
              !.report.usage.messages.by_day = SortByDate(s.dayMap)]

\* Lines 215-226: period from minDate/maxDate, by_day from dayMap.
FinalizeReport(s, clock) ==
    [s EXCEPT !.report.period.start = IF s.minDate # clock THEN s.minDate ELSE @,
              !.report.period.end = IF s.maxDate # Epoch THEN s.maxDate ELSE @,
              !.report.usage.messages.by_day = SortByDate(s.dayMap)]

\* --------------------------------------------------------------- history
\* What the claims are stated against: obs[r] records, independently of the
\* accumulators, what run r was given and what it retained.

\* A line that is blank, is not JSON, or is JSON without message.usage.
Unusable(l) == l.text \in {"blank", "garbage"} \/ l.entry.json # "usage"

\* The window test as the specification words it.
InWindow(t, startDate, endDate) ==
    (startDate = Null \/ t >= startDate) /\ (endDate = Null \/ t <= endDate)

\* The step from s to t counted one more message.
Retained(s, t) == t.report.usage.messages.count > s.report.usage.messages.count

\* usableInWindow: number of usable lines of the files read so far that lie
\* in the run's window or carry no timestamp, whether the run read them or
\* not; retainedTs: timestamps of the events the run retained;
\* retainedModels: model ids, as written in the record, of the events the
\* run retained; retainedKeys: date keys of the string timestamps of the
\* events the run retained (a numeric timestamp has no date key: its split
\* throws); unordered: some retained event's date key was lower than that
\* of an event retained before it.
Observe(o, s, t, l) ==
    LET ts == l.entry.timestamp IN
    [ usableInWindow |->
          o.usableInWindow
            + (IF ~Unusable(l) /\ (~Truthy(ts) \/ InWindow(ts.t, s.startDate, s.endDate))
               THEN 1 ELSE 0),
      retainedTs |->
          IF Retained(s, t) /\ Truthy(ts) THEN o.retainedTs \cup {ts.t} ELSE o.retainedTs,
      retainedModels |->
          IF Retained(s, t) THEN o.retainedModels \cup {l.entry.model}
          ELSE o.retainedModels,
      retainedKeys |->
          IF Retained(s, t) /\ ts.kind = "iso" THEN o.retainedKeys \cup {DateKey(ts.t)}
          ELSE o.retainedKeys,
      unordered |->
          \/ o.unordered
          \/ /\ Retained(s, t)
             /\ ts.kind = "iso"
             /\ \E k \in o.retainedKeys : DateKey(ts.t) < k ]

\* ------------------------------------------------------ dashboard values
\* App.tsx line 15, `useState<UsageReport | null>(null)`: no report loaded.
NoReport == [kind |-> "null"]
\* The dashboard is not mounted: nothing memoized.
NoAnalysis == [kind |-> "none"]
\* analyzePlanFit called without its optional `currentPlan`.
Undefined == "undefined"
NoPlanFit == [kind |-> "none"]
\* analyzeUsageTrends returning null.
NoTrends == [kind |-> "null"]

\* The dashboard before any report is loaded.
DashboardIdle ==
    /\ data = NoReport
    /\ analysis = NoAnalysis
    /\ lastLoad = "none"
    /\ currentPlan = Undefined
    /\ planFit = NoPlanFit
    /\ reports = << >>
    /\ trends = NoTrends

\* What has not happened yet: no outcome of a loader, no server running, no
\* request handled.
None == [kind |-> "none"]

\* No file has been given to a loader.
NoFile == [json |-> "none"]

CliIdle ==
    /\ file = NoFile
    /\ cli = None
    /\ upload = None

ServeIdle ==
    /\ served = None
    /\ request = None
    /\ response = None

\* `useState<string | null>(null)`: no report id.
NoId == 0

\* App.tsx lines 15-19 over an empty localStorage.
AppIdle ==
    /\ viewMode = "uploader"
    /\ currentReportId = NoId
    /\ savedReports = << >>
    /\ showHistory = FALSE
    /\ isLiveData = FALSE
    /\ history = << >>
    /\ nextId = 1

\* ------------------------------------------------------------------ state
Init ==
    /\ options \in OptionSets
    /\ dirExists \in BOOLEAN
    /\ now = StartClock
    /\ pc = "start"
    /\ fileNo = 0
    /\ lineNo = 0
    /\ line = NoLine
    /\ readFailed = {}
    /\ scan = [r \in Runs |-> InitScan(options, now[r])]
    /\ obs = [r \in Runs |-> [usableInWindow |-> 0, retainedTs |-> {}, retainedModels |-> {},
                               retainedKeys |-> {}, unordered |-> FALSE]]
    /\ DashboardIdle
    /\ CliIdle
    /\ ServeIdle
    /\ AppIdle

\* DataMissing returning the empty report without pushing the error.
DataMissing_NoError ==
    /\ pc = "start"
    /\ ~dirExists
    /\ pc' = "done"
    /\ UNCHANGED <<options, dirExists, now, fileNo, lineNo, line, readFailed, scan, obs, dashVars, cliVars, serveVars, appVars>>

\* Lines 122-125: the projects directory does not exist.
DataMissing ==
    /\ pc = "start"
    /\ ~dirExists
    /\ scan' = [r \in Runs |->
                  [scan[r] EXCEPT !.progress.errors =
                      Append(@, [msg |-> "Claude projects directory not found",
                                 path |-> 0])]]
    /\ pc' = "done"
    /\ UNCHANGED <<options, dirExists, now, fileNo, lineNo, line, readFailed, obs, dashVars, cliVars, serveVars, appVars>>

\* Lines 127-142: the projects and their session files are enumerated.
ListProjects ==
    /\ pc = "start"
    /\ dirExists
    /\ pc' = "files"
    /\ UNCHANGED <<options, dirExists, now, fileNo, lineNo, line, readFailed, scan, obs, dashVars, cliVars, serveVars, appVars>>

\* Lines 144-148.
CountFile(s) ==
    [s EXCEPT !.progress.filesProcessed = @ + 1,
              !.report.usage.sessions.count = @ + 1,
              !.aborted = FALSE]

\* Lines 144-151: next session file, read successfully.
ReadFile ==
    /\ pc = "files"
    /\ fileNo < MaxFiles
    /\ fileNo' = fileNo + 1
    /\ scan' = [r \in Runs |-> CountFile(scan[r])]
    /\ pc' = "lines"
    /\ line' = NoLine
    /\ UNCHANGED <<options, dirExists, now, lineNo, readFailed, obs, dashVars, cliVars, serveVars, appVars>>

\* ReadFileFails with the two counters incremented after the read.
ReadFileFails_NotCounted ==
    /\ pc = "files"
    /\ fileNo < MaxFiles
    /\ fileNo' = fileNo + 1
    /\ readFailed' = readFailed \cup {fileNo + 1}
    /\ scan' = [r \in Runs |-> CatchFileError(scan[r], options.verbose, fileNo + 1)]
    /\ line' = NoLine
    /\ UNCHANGED <<options, dirExists, now, pc, lineNo, obs, dashVars, cliVars, serveVars, appVars>>

\* Lines 144-150, 205-211: next session file, readFileSync throws.
ReadFileFails ==
    /\ pc = "files"
    /\ fileNo < MaxFiles
    /\ fileNo' = fileNo + 1
    /\ readFailed' = readFailed \cup {fileNo + 1}
    /\ scan' = [r \in Runs |->
                  CatchFileError(CountFile(scan[r]), options.verbose, fileNo + 1)]
    /\ line' = NoLine
    /\ UNCHANGED <<options, dirExists, now, pc, lineNo, obs, dashVars, cliVars, serveVars, appVars>>

\* Lines 153-204: the next line of the open file.  A run whose loop was left
\* through the catch does not read it.
ProcessLine ==
    /\ pc = "lines"
    /\ lineNo < MaxLines
    /\ \E l \in Lines :
          /\ line' = l
          /\ scan' = [r \in Runs |->
                        IF scan[r].aborted THEN scan[r]
                        ELSE AggregateLine(scan[r], l, options.verbose, fileNo)]
          /\ obs' = [r \in Runs |-> Observe(obs[r], scan[r], scan'[r], l)]
    /\ lineNo' = lineNo + 1
    /\ UNCHANGED <<options, dirExists, now, pc, fileNo, readFailed, dashVars, cliVars, serveVars, appVars>>

\* Line 211: the file is finished; on to the next one.
EndOfFile ==
    /\ pc = "lines"
    /\ pc' = "files"
    /\ line' = NoLine
    /\ UNCHANGED <<options, dirExists, now, fileNo, lineNo, readFailed, scan, obs, dashVars, cliVars, serveVars, appVars>>

\* Lines 215-226, 232: all files done; the clock is read once more.
Finalize ==
    /\ pc = "files"
    /\ \E clock \in [Runs -> 0 .. MaxTime + 2] :
          /\ \A r \in Runs : clock[r] \in {now[r], now[r] + 1}
          /\ scan' = [r \in Runs |-> FinalizeReport(scan[r], clock[r])]
    /\ pc' = "done"
    /\ UNCHANGED <<options, dirExists, now, fileNo, lineNo, line, readFailed, obs, dashVars, cliVars, serveVars, appVars>>

Next ==
    \/ DataMissing
    \/ ListProjects
    \/ ReadFile
    \/ ReadFileFails
    \/ ProcessLine
    \/ EndOfFile
    \/ Finalize

Spec == Init /\ [][Next]_vars

\* ================================================================= claims
RECURSIVE SumSeq(_, _)
SumSeq(seq, f) == IF Len(seq) = 0 THEN 0 ELSE seq[1][f] + SumSeq(Tail(seq), f)

RECURSIVE SumMap(_, _)
SumMap(map, f) ==
    IF DOMAIN map = {} THEN 0
    ELSE LET k == CHOOSE x \in DOMAIN map : TRUE
         IN  map[k][f] + SumMap([x \in DOMAIN map \ {k} |-> map[x]], f)

Usage(r) == scan[r].report.usage

\* C1: in every report the scan returns, the per-day buckets account for all
\* that was counted: the sums of by_day[*].count, .input and .output equal
\* messages.count, tokens.input and tokens.output, retained events without a
\* timestamp included.
C1_DayBucketsAccountForAll ==
    pc = "done" =>
        \A r \in Runs :
            /\ SumSeq(Usage(r).messages.by_day, "count") = Usage(r).messages.count
            /\ SumSeq(Usage(r).messages.by_day, "input") = Usage(r).tokens.input
            /\ SumSeq(Usage(r).messages.by_day, "output") = Usage(r).tokens.output

\* C2: after every processed line and in the final report, tokens.input and
\* tokens.output equal the sums over by_model; the keys of by_model are the
\* model ids of the retained events, a missing or empty id being "unknown".
C2_ByModelSums ==
    \A r \in Runs :
        /\ Usage(r).tokens.input = SumMap(Usage(r).tokens.by_model, "input")
        /\ Usage(r).tokens.output = SumMap(Usage(r).tokens.by_model, "output")
        /\ DOMAIN Usage(r).tokens.by_model =
              {IF m = "" THEN "unknown" ELSE m : m \in obs[r].retainedModels}

\* C2 witness: mid-scan, two lines retained under "unknown" and "m1", with
\* tokens under each key.
C2_Witness ==
    /\ pc = "lines"
    /\ DOMAIN Usage(1).tokens.by_model = {"unknown", "m1"}
    /\ Usage(1).tokens.by_model["unknown"].input > 0
    /\ Usage(1).tokens.by_model["m1"].output > 0

SetMin(S) == CHOOSE x \in S : \A y \in S : x <= y
SetMax(S) == CHOOSE x \in S : \A y \in S : x >= y

\* The two runs use the same date window.
SameWindow ==
    scan[1].startDate = scan[2].startDate /\ scan[1].endDate = scan[2].endDate

C5_PeriodIsMinMax ==
    pc = "done" =>
        \A r \in Runs :
            IF obs[r].retainedTs # {}
            THEN /\ scan[r].report.period.start = SetMin(obs[r].retainedTs)
                 /\ scan[r].report.period.end = SetMax(obs[r].retainedTs)
            ELSE /\ scan[r].report.period.start = now[r]
                 /\ scan[r].report.period.end = now[r]

\* C6: whatever the lines hold, every usable in-window line of every file
\* that was read is aggregated: the report counts exactly those lines.
C6_EveryUsableLineAggregated ==
    pc = "done" =>
        \A r \in Runs : Usage(r).messages.count = obs[r].usableInWindow

\* C7: a line that is blank, not JSON, or JSON without message.usage parses
\* without failure and leaves every accumulator and the error list as they
\* were.
C7_UnusableLineNoEffect ==
    [][(lineNo' = lineNo + 1 /\ Unusable(line')) =>
          /\ parseJsonlLine(line').json \in {"null", "nousage"}
          /\ scan' = scan]_vars

\* C7 witness: a JSON line without message.usage was read after a retained
\* event.
C7_Witness ==
    /\ pc = "lines"
    /\ lineNo = 2
    /\ line.text = "json"
    /\ line.entry.json = "nousage"
    /\ Usage(1).messages.count = 1
    /\ scan[1].progress.messagesProcessed = 1

ReadErrorOf(f) == [msg |-> "Error reading", path |-> f]

HasError(r, e) ==
    \E i \in DOMAIN scan[r].progress.errors : scan[r].progress.errors[i] = e

C9_MissingDataSource ==
    (pc = "done" /\ ~dirExists) =>
        \A r \in Runs :
            /\ Usage(r).tokens.input = 0
            /\ Usage(r).tokens.output = 0
            /\ Usage(r).tokens.cached = 0
            /\ DOMAIN Usage(r).tokens.by_model = {}
            /\ Usage(r).messages.count = 0
            /\ Len(Usage(r).messages.by_day) = 0
            /\ Usage(r).sessions.count = 0
            /\ scan[r].progress.errors
                  = <<[msg |-> "Claude projects directory not found", path |-> 0]>>

C9_Witness == pc = "done" /\ ~dirExists /\ Len(scan[1].progress.errors) = 1

\* C10: sessions.count equals the number of session files encountered and
\* progress.filesProcessed, whatever the files hold and whether or not they
\* could be read.
C10_SessionCount ==
    \A r \in Runs :
        /\ Usage(r).sessions.count = fileNo
        /\ scan[r].progress.filesProcessed = fileNo

\* C10 witness: a finished scan of two files, one unreadable and one whose
\* lines added nothing.
C10_Witness ==
    /\ pc = "done"
    /\ fileNo = 2
    /\ readFailed = {1}
    /\ lineNo = 2
    /\ Usage(1).messages.count = 0
    /\ Usage(1).sessions.count = 2

\* C25: by_day of the final report is sorted ascending by date, its dates are
\* pairwise distinct (strictly increasing), and it has exactly one entry per
\* distinct date key seen among the retained timestamped events, in whatever
\* order the files and lines were processed.
C25_ByDaySortedOnePerDate ==
    pc = "done" =>
        \A r \in Runs :
            LET by_day == Usage(r).messages.by_day
            IN  /\ \A i \in 1 .. Len(by_day) - 1 : by_day[i].date < by_day[i + 1].date
                /\ {by_day[i].date : i \in DOMAIN by_day} = obs[r].retainedKeys

\* A finished scan that retained an event of a later day before one of an
\* earlier day: two entries, earlier day first.
C25_Witness ==
    /\ pc = "done"
    /\ obs[1].unordered
    /\ Len(Usage(1).messages.by_day) = 2
    /\ Usage(1).messages.by_day[1].date < Usage(1).messages.by_day[2].date

\* ========================================================== Cost Estimator
\* services/analysisService.ts, calculateAnalysis.
MaxModels == 2

\* One dollar, in micro-dollars.
Dollar == 1000000
\* `toFixed(2)`: one unit of the second decimal, in micro-dollars.
Cent == 10000

Price(input, output) == [input |-> input, output |-> output]

\* The scan is not part of these specifications.
ScanIdle ==
    /\ options = [days |-> 0, startDate |-> Null, endDate |-> Null, verbose |-> FALSE]
    /\ dirExists = FALSE
    /\ now = StartClock
    /\ pc = "idle"
    /\ fileNo = 0
    /\ lineNo = 0
    /\ line = NoLine
    /\ readFailed = {}
    /\ scan = << >>
    /\ obs = << >>

\* analysisService.ts lines 5-36; prices in milli-dollars per million tokens.
MODEL_PRICING ==
    "claude-sonnet-4-20250514" :> Price(3000, 15000) @@
    "claude-opus-4-20250514" :> Price(15000, 75000) @@
    "claude-3-5-sonnet-20241022" :> Price(3000, 15000) @@
    "claude-3-5-sonnet-20240620" :> Price(3000, 15000) @@
    "claude-3-opus-20240229" :> Price(15000, 75000) @@
    "claude-3-5-haiku-20241022" :> Price(800, 4000) @@
    "claude-3-haiku-20240307" :> Price(250, 1250) @@
    "Claude (estimated)" :> Price(3000, 15000) @@
    "gpt-4o" :> Price(2500, 10000) @@
    "gpt-4o-mini" :> Price(150, 600) @@
    "o1" :> Price(15000, 60000) @@
    "o1-preview" :> Price(15000, 60000) @@
    "o1-mini" :> Price(3000, 12000) @@
    "gemini-2.5-pro" :> Price(1250, 10000) @@
    "gemini-2.5-flash" :> Price(150, 600) @@
    "gemini-2.0-flash" :> Price(100, 400) @@
    "gemini-1.5-pro" :> Price(1250, 5000) @@
    "gemini-1.5-flash" :> Price(75, 300) @@
    "Gemini (estimated)" :> Price(1250, 10000) @@
    "grok-3" :> Price(5000, 15000) @@
    "grok-3-mini" :> Price(300, 500) @@
    "grok-2" :> Price(2000, 10000) @@
    "Grok (estimated)" :> Price(5000, 15000) @@
    "default" :> Price(3000, 15000)

\* A UsageReport (types.ts), with the fields the services read.
UsageReport(plan, tokens, messages, sessions, period) ==
    [ plan |-> plan,
      usage |-> [tokens |-> tokens, messages |-> messages, sessions |-> sessions],
      period |-> period ]

\* Model ids of the reports given to calculateAnalysis: one priced by the
\* table, one priced with three decimals, one the table does not have.
CostModelIds == {"claude-3-opus-20240229", "gemini-1.5-flash", "unknown"}

\* Token counts of a by_model entry, in thousands.  No cost they give falls
\* on half a cent, where toFixed(2) would follow the binary value of the sum.
TokenPairs ==
    { [input |-> 0, output |-> 0], [input |-> 1200, output |-> 0],
      [input |-> 1200, output |-> 1000], [input |-> 6666, output |-> 0] }

\* by_model of at most MaxModels entries.
ByModels ==
    UNION { [S -> TokenPairs] : S \in {T \in SUBSET CostModelIds : Cardinality(T) <= MaxModels} }

\* Aggregate totals; an uploaded report need not have them equal to the
\* sums of by_model.
TokenTotals == { [input |-> n, output |-> n] : n \in {0, 1000} }

PlanPrices == {20 * Dollar, 100 * Dollar}

CostReports ==
    { UsageReport([name |-> "Claude Pro", price_usd |-> p],
                  [input |-> t.input, output |-> t.output, by_model |-> b],
                  [count |-> 0, by_day |-> << >>],
                  [count |-> 0],
                  [start |-> 1, end |-> 1]) :
        p \in PlanPrices, t \in TokenTotals, b \in ByModels }

\* Line 45 with the table lacking its fallback use: unknown ids cost nothing.
PricingOf_NoFallback(table, modelName) ==
    IF modelName \in DOMAIN table THEN table[modelName] ELSE Price(0, 0)

\* Line 45: `MODEL_PRICING[modelName] || MODEL_PRICING["default"]`.
PricingOf(table, modelName) ==
    IF modelName \in DOMAIN table THEN table[modelName] ELSE table["default"]

\* Lines 47-49: (tokens.input / 1e6) * pricing.input + (tokens.output / 1e6) * pricing.output.
CostForModel(tokens, pricing) ==
    tokens.input * pricing.input + tokens.output * pricing.output

\* Lines 43-51: apiCost += costForModel over Object.entries(by_model).
RECURSIVE SumCostForModels(_, _, _)
SumCostForModels(table, by_model, names) ==
    IF names = {} THEN 0
    ELSE LET modelName == CHOOSE n \in names : TRUE
         IN  CostForModel(by_model[modelName], PricingOf(table, modelName))
               + SumCostForModels(table, by_model, names \ {modelName})

\* Lines 39-67 with the aggregate fallback left out.
ApiCost_NoAggregate(report) ==
    SumCostForModels(MODEL_PRICING, report.usage.tokens.by_model,
                     DOMAIN report.usage.tokens.by_model)

\* Lines 39-67 with `apiCost = costForModel` for `+=`: one entry alone counts.
ApiCost_Overwrite(report) ==
    LET by_model == report.usage.tokens.by_model
    IN  IF DOMAIN by_model = {}
        THEN CostForModel(report.usage.tokens, MODEL_PRICING["default"])
        ELSE LET modelName == CHOOSE n \in DOMAIN by_model : TRUE
             IN  CostForModel(by_model[modelName], PricingOf(MODEL_PRICING, modelName))

\* Lines 39-67: apiCost before rounding.
ApiCost(report) ==
    LET by_model == report.usage.tokens.by_model
    IN  IF DOMAIN by_model = {}
        THEN CostForModel(report.usage.tokens, MODEL_PRICING["default"])
        ELSE SumCostForModels(MODEL_PRICING, by_model, DOMAIN by_model)

\* Line 54: modelName.split('-').slice(0, 3).join('-').
ShortName(modelName) ==
    IF modelName = "claude-3-opus-20240229" THEN "claude-3-opus" ELSE modelName

\* Lines 53-56, 65: modelBreakdown, keyed here by the entry it was pushed for.
ModelBreakdown(report) ==
    LET by_model == report.usage.tokens.by_model
    IN  IF DOMAIN by_model = {}
        THEN "Aggregate" :> [name |-> "Aggregate",
                             value |-> report.usage.tokens.input + report.usage.tokens.output]
        ELSE [m \in DOMAIN by_model |->
                 [name |-> ShortName(m), value |-> by_model[m].input + by_model[m].output]]

Abs(x) == IF x < 0 THEN -x ELSE x

\* toFixed(2) that cuts the third decimal off.
ToFixed2_Truncate(x) == x \div Cent

\* Lines 82-83: parseFloat(x.toFixed(2)) of a non-negative amount, in cents.
ToFixed2(x) == (x + Cent \div 2) \div Cent

\* The verdict taken from the rounded cost.
IsOverpaying_Rounded(currentCost, apiCost) == currentCost > ToFixed2(apiCost) * Cent

\* Line 70.
IsOverpaying(currentCost, apiCost) == currentCost > apiCost

\* Lines 73-78 with the two subscription labels exchanged.
RecommendedPlan_Swapped(currentCost, apiCost) ==
    IF ~IsOverpaying(currentCost, apiCost) /\ currentCost * 5 < apiCost * 4
    THEN "Subscription (Good Value)"
    ELSE IF ~IsOverpaying(currentCost, apiCost)
         THEN "Keep Current Subscription"
         ELSE "API (Pay-As-You-Go)"

\* Lines 73-78; `apiCost * 0.8` as four fifths.
RecommendedPlan(currentCost, apiCost) ==
    IF ~IsOverpaying(currentCost, apiCost) /\ currentCost * 5 < apiCost * 4
    THEN "Keep Current Subscription"
    ELSE IF ~IsOverpaying(currentCost, apiCost)
         THEN "Subscription (Good Value)"
         ELSE "API (Pay-As-You-Go)"

\* Lines 38-88.  apiEquivalentCost and savings are in cents, currentMonthlyCost
\* in micro-dollars.
calculateAnalysis(report) ==
    LET apiCost == ApiCost(report)
        currentCost == report.plan.price_usd
    IN  [ currentMonthlyCost |-> currentCost,
          apiEquivalentCost |-> ToFixed2(apiCost),
          savings |-> ToFixed2(Abs(currentCost - apiCost)),
          isOverpaying |-> IsOverpaying(currentCost, apiCost),
          recommendedPlan |-> RecommendedPlan(currentCost, apiCost),
          modelBreakdown |-> ModelBreakdown(report) ]

\* Report `after` is report `before` with the tokens of some models increased
\* or with entries for further models added, everything else unchanged.
Increased(before, after) ==
    LET b == before.usage.tokens.by_model
        a == after.usage.tokens.by_model
    IN  /\ before # after
        /\ after = [before EXCEPT !.usage.tokens.by_model = a]
        /\ DOMAIN b \subseteq DOMAIN a
        /\ \A m \in DOMAIN b : a[m].input >= b[m].input /\ a[m].output >= b[m].output

\* AnalysisDashboard.tsx lines 62-63: the dashboard is rendered with a report
\* as its `data` prop and memoizes the analysis of it.
RenderDashboard ==
    \E report \in CostReports :
        /\ data' = report
        /\ analysis' = calculateAnalysis(report)
        /\ lastLoad' = IF data = NoReport THEN "first"
                       ELSE IF Increased(data, report) THEN "increase"
                       ELSE "other"
        /\ UNCHANGED <<scanVars, cliVars, serveVars, appVars, currentPlan, planFit, reports, trends>>

\* App.tsx lines 123-128, 264: the report is dropped and the dashboard is no
\* longer rendered.
UnmountDashboard ==
    /\ data # NoReport
    /\ data' = NoReport
    /\ analysis' = NoAnalysis
    /\ lastLoad' = "none"
    /\ UNCHANGED <<scanVars, cliVars, serveVars, appVars, currentPlan, planFit, reports, trends>>

InitCost == ScanIdle /\ DashboardIdle /\ CliIdle /\ ServeIdle /\ AppIdle

NextCost == RenderDashboard \/ UnmountDashboard

SpecCost == InitCost /\ [][NextCost]_vars

\* ------------------------------------------------- claims on the estimator
\* The price the table gives a model id: its own entry, else "default".
TablePrice(m) ==
    IF m \in DOMAIN MODEL_PRICING THEN MODEL_PRICING[m] ELSE MODEL_PRICING["default"]

\* Sum over the by_model entries of input * price.input + output * price.output.
RECURSIVE ByModelCost(_)
ByModelCost(by_model) ==
    IF DOMAIN by_model = {} THEN 0
    ELSE LET m == CHOOSE n \in DOMAIN by_model : TRUE
             rest == [n \in DOMAIN by_model \ {m} |-> by_model[n]]
         IN  by_model[m].input * TablePrice(m).input
               + by_model[m].output * TablePrice(m).output + ByModelCost(rest)

\* The API-equivalent cost of a report before rounding, in micro-dollars.
ExactCost(report) ==
    IF DOMAIN report.usage.tokens.by_model = {}
    THEN report.usage.tokens.input * MODEL_PRICING["default"].input
           + report.usage.tokens.output * MODEL_PRICING["default"].output
    ELSE ByModelCost(report.usage.tokens.by_model)

\* Rounding of a non-negative amount of micro-dollars to the nearest cent.
NearestCent(x) == CHOOSE c \in 0 .. (x \div Cent) + 1 : 2 * Abs(c * Cent - x) <= Cent /\ 2 * ((c + 1) * Cent - x) > Cent

\* C11: the apiEquivalentCost that calculateAnalysis returns is, rounded to
\* cents, the sum over by_model of tokens.input/1e6 * price.input +
\* tokens.output/1e6 * price.output, the price being the table entry of the
\* exact model id or the "default" entry; with an empty by_model it is the
\* "default" rate applied to the aggregate token totals.
C11_ApiEquivalentCost ==
    data # NoReport => analysis.apiEquivalentCost = NearestCent(ExactCost(data))

\* A report with a listed and an unlisted model whose cost is no whole cent.
C11_Witness ==
    /\ data # NoReport
    /\ {"claude-3-opus-20240229", "unknown"} \subseteq DOMAIN data.usage.tokens.by_model
    /\ data.usage.tokens.by_model["unknown"].input > 0
    /\ data.usage.tokens.by_model["claude-3-opus-20240229"].output > 0
    /\ ExactCost(data) % Cent # 0
    /\ analysis.apiEquivalentCost * Cent > ExactCost(data)

\* C12 as stated: isOverpaying is true exactly when currentMonthlyCost exceeds
\* the apiEquivalentCost that is returned, the cost rounded to two decimals.
C12_VerdictAgainstReturnedCost ==
    data # NoReport =>
        (analysis.isOverpaying <=>
            analysis.currentMonthlyCost > analysis.apiEquivalentCost * Cent)

\* C12, amended: isOverpaying is true exactly when currentMonthlyCost exceeds
\* the API-equivalent cost before rounding.  Against the returned, rounded
\* apiEquivalentCost, for a price in whole cents, an overpaying verdict
\* only gives currentMonthlyCost >= apiEquivalentCost, and a verdict of not
\* overpaying gives currentMonthlyCost <= apiEquivalentCost.
C12_VerdictAgainstExactCost ==
    data # NoReport =>
        /\ analysis.isOverpaying <=> analysis.currentMonthlyCost > ExactCost(data)
        /\ analysis.isOverpaying =>
              analysis.currentMonthlyCost >= analysis.apiEquivalentCost * Cent
        /\ ~analysis.isOverpaying =>
              analysis.currentMonthlyCost <= analysis.apiEquivalentCost * Cent

\* Overpaying by less than half a cent: the returned cost equals the price.
C12_Witness ==
    /\ data # NoReport
    /\ analysis.isOverpaying
    /\ analysis.currentMonthlyCost = analysis.apiEquivalentCost * Cent
    /\ analysis.savings = 0

\* C13 as stated: the label is pay-as-you-go when the price P exceeds the API
\* cost C, the "good value" label when P < 0.8 * C, and the plain "keep
\* subscription" label when 0.8 * C <= P <= C.
C13_GoodValueWhenFarCheaper ==
    data # NoReport =>
        LET P == data.plan.price_usd
            C == ExactCost(data)
        IN  analysis.recommendedPlan =
              IF P > C THEN "API (Pay-As-You-Go)"
              ELSE IF P * 5 < C * 4 THEN "Subscription (Good Value)"
              ELSE "Keep Current Subscription"

\* C13, amended: the label is pay-as-you-go when P > C, the plain "Keep
\* Current Subscription" label when P < 0.8 * C, and the "Subscription (Good
\* Value)" label when 0.8 * C <= P <= C, C being the cost before rounding.
C13_GoodValueWhenWithinFifth ==
    data # NoReport =>
        LET P == data.plan.price_usd
            C == ExactCost(data)
        IN  /\ P > C => analysis.recommendedPlan = "API (Pay-As-You-Go)"
            /\ P * 5 < C * 4 => analysis.recommendedPlan = "Keep Current Subscription"
            /\ (C * 4 <= P * 5 /\ P <= C) =>
                  analysis.recommendedPlan = "Subscription (Good Value)"

\* A subscription within a fifth below the API cost, labelled good value.
C13_Witness ==
    /\ data # NoReport
    /\ data.plan.price_usd < ExactCost(data)
    /\ ExactCost(data) * 4 <= data.plan.price_usd * 5
    /\ analysis.recommendedPlan = "Subscription (Good Value)"

\* C14 as stated: increasing the tokens of any model, or adding an entry for
\* a model that had none, everything else unchanged, never decreases
\* apiEquivalentCost.
C14_Monotonic ==
    [][(data # NoReport /\ data' # NoReport /\ Increased(data, data'))
          => analysis'.apiEquivalentCost >= analysis.apiEquivalentCost]_vars

\* C14, amended: the same, for a report whose by_model is not empty before
\* the increase.  (The first entry added to an empty by_model replaces the
\* cost of the aggregate totals by the cost of that entry.)
C14_MonotonicWithBreakdown ==
    [][(/\ data # NoReport
        /\ data' # NoReport
        /\ Increased(data, data')
        /\ DOMAIN data.usage.tokens.by_model # {})
          => analysis'.apiEquivalentCost >= analysis.apiEquivalentCost]_vars

\* A report loaded over one with fewer tokens in a non-empty by_model.
C14_Witness ==
    /\ lastLoad = "increase"
    /\ Cardinality(DOMAIN data.usage.tokens.by_model) = MaxModels
    /\ \E m \in DOMAIN data.usage.tokens.by_model :
          data.usage.tokens.by_model[m].input = 6666
    /\ analysis.apiEquivalentCost > 0

\* ======================================================= Plan-Fit Classifier
\* services/analysisService.ts, analyzePlanFit.
MaxHead == 2

\* Line 138: the date '' of the accumulator the peak search starts from.
NoDate == 0

\* constants.ts lines 251-255; prices in dollars.
PLAN_LIMITS ==
    "Claude Pro" :> [messagesPerDay |-> 100, price |-> 20] @@
    "Claude Max 5x" :> [messagesPerDay |-> 500, price |-> 100] @@
    "Claude Max 20x" :> [messagesPerDay |-> 2000, price |-> 200]

\* Daily message counts around the limits and the near-limit thresholds.
DayCounts == {0, 79, 80, 100, 101, 399, 400, 500, 501, 2000, 2001}
\* The count of the days after the first MaxHead ones.
FillCounts == {0, 50}
\* Numbers of days of data, around the confidence thresholds.
SeriesLengths == {1, 2, 13, 14, 29, 30}

\* by_day of `len` days, dated 1 .. len in order: the counts of `head`, then
\* `fill` on every later day.
Series(len, head, fill) ==
    [ i \in 1 .. len |->
        [ date |-> i,
          count |-> IF i <= Len(head) THEN head[i] ELSE fill,
          input |-> 0,
          output |-> 0 ] ]

ByDays ==
    UNION { { Series(len, head, fill) :
                head \in [1 .. (IF len < MaxHead THEN len ELSE MaxHead) -> DayCounts],
                fill \in (IF len <= MaxHead THEN {0} ELSE FillCounts) } :
            len \in SeriesLengths }

\* plan.name and plan.price_usd of the report: a Claude tier, another
\* vendor's plan, and an empty name.
ReportPlans ==
    { [name |-> "Claude Pro", price_usd |-> 20 * Dollar],
      [name |-> "ChatGPT Plus", price_usd |-> 20 * Dollar],
      [name |-> "", price_usd |-> 0] }

FitReports ==
    { UsageReport(plan,
                  [input |-> 0, output |-> 0, by_model |-> << >>],
                  [count |-> 0, by_day |-> by_day],
                  [count |-> 0],
                  [start |-> 1, end |-> 1]) :
        plan \in ReportPlans, by_day \in ByDays }

\* The `currentPlan` argument: left out, or a PlanLimitKey.
CurrentPlans == {Undefined, "Claude Pro", "Claude Max 20x"}

\* The limit test made inclusive.
IsOver_Inclusive(count, plan) == count >= PLAN_LIMITS[plan].messagesPerDay

\* Lines 131-133: day.count > PLAN_LIMITS[plan].messagesPerDay.
IsOver(count, plan) == count > PLAN_LIMITS[plan].messagesPerDay

\* Lines 128-134.
DailyUsage(byDay) ==
    [ i \in 1 .. Len(byDay) |->
        [ date |-> byDay[i].date,
          count |-> byDay[i].count,
          isOverPro |-> IsOver(byDay[i].count, "Claude Pro"),
          isOverMax5x |-> IsOver(byDay[i].count, "Claude Max 5x"),
          isOverMax20x |-> IsOver(byDay[i].count, "Claude Max 20x") ] ]

\* Lines 137-140: dailyUsage.reduce((max, day) => day.count > max.count ? day : max, seed).
RECURSIVE ReducePeak(_, _, _)
ReducePeak(max, dailyUsage, i) ==
    IF i > Len(dailyUsage) THEN max
    ELSE ReducePeak(IF dailyUsage[i].count > max.count THEN dailyUsage[i] ELSE max,
                    dailyUsage, i + 1)

PeakDay(dailyUsage) ==
    ReducePeak([date |-> NoDate, count |-> 0, isOverPro |-> FALSE,
                isOverMax5x |-> FALSE, isOverMax20x |-> FALSE],
               dailyUsage, 1)

\* Lines 143-145: dailyUsage.filter(d => d[flag]).length.
DaysOver(dailyUsage, flag) ==
    Cardinality({i \in 1 .. Len(dailyUsage) : dailyUsage[i][flag]})

\* Line 148: dailyUsage.reduce((sum, d) => sum + d.count, 0).
RECURSIVE TotalMessages(_)
TotalMessages(dailyUsage) ==
    IF Len(dailyUsage) = 0 THEN 0
    ELSE dailyUsage[1].count + TotalMessages(Tail(dailyUsage))

\* Line 150: Math.round of a non-negative quotient.
AvgMessages(totalMessages, totalDays) ==
    IF totalDays > 0 THEN (2 * totalMessages + totalDays) \div (2 * totalDays) ELSE 0

\* The recommendation without its top tier: days over 500 get max5x.
Recommend_NoTopTier(peakDay, daysOverPro, daysOverMax5x) ==
    IF daysOverMax5x > 0 \/ peakDay.count >= 400
    THEN [recommendation |-> "max5x", reason |-> "close to 500", quoted |-> peakDay.count]
    ELSE IF daysOverPro > 0
    THEN [recommendation |-> "max5x", reason |-> "exceeded 100", quoted |-> daysOverPro]
    ELSE IF peakDay.count >= 80
    THEN [recommendation |-> "max5x", reason |-> "approaching 100", quoted |-> peakDay.count]
    ELSE [recommendation |-> "pro", reason |-> "fits", quoted |-> peakDay.count]

\* Lines 156-177: the recommendation and what its reason quotes.
Recommend(peakDay, daysOverPro, daysOverMax5x) ==
    IF daysOverMax5x > 0
    THEN [recommendation |-> "max20x", reason |-> "exceeded 500", quoted |-> daysOverMax5x]
    ELSE IF peakDay.count >= 400
    THEN [recommendation |-> "max5x", reason |-> "close to 500", quoted |-> peakDay.count]
    ELSE IF daysOverPro > 0
    THEN [recommendation |-> "max5x", reason |-> "exceeded 100", quoted |-> daysOverPro]
    ELSE IF peakDay.count >= 80
    THEN [recommendation |-> "max5x", reason |-> "approaching 100", quoted |-> peakDay.count]
    ELSE [recommendation |-> "pro", reason |-> "fits", quoted |-> peakDay.count]

\* Line 180: currentPlan || data.plan.name || 'Claude Max 20x'.
Detected(report, plan) ==
    IF plan # Undefined /\ plan # "" THEN plan
    ELSE IF report.plan.name # "" THEN report.plan.name
    ELSE "Claude Max 20x"

\* Line 181: PLAN_LIMITS[detected] || PLAN_LIMITS['Claude Max 20x'].
DetectedInfo(detected) ==
    IF detected \in DOMAIN PLAN_LIMITS THEN PLAN_LIMITS[detected]
    ELSE PLAN_LIMITS["Claude Max 20x"]

\* Line 182.
RecommendedInfo(recommendation) ==
    PLAN_LIMITS[ IF recommendation = "pro" THEN "Claude Pro"
                 ELSE IF recommendation = "max5x" THEN "Claude Max 5x"
                 ELSE "Claude Max 20x" ]

\* The thresholds taken exclusive.
Confidence_Exclusive(totalDays) ==
    IF totalDays > 30 THEN "high" ELSE IF totalDays > 14 THEN "medium" ELSE "low"

\* Lines 188-195.
Confidence(totalDays) ==
    IF totalDays >= 30 THEN "high" ELSE IF totalDays >= 14 THEN "medium" ELSE "low"

Max(a, b) == IF a >= b THEN a ELSE b

\* Lines 124-215.
analyzePlanFit(report, plan) ==
    LET dailyUsage == DailyUsage(report.usage.messages.by_day)
        peakDay == PeakDay(dailyUsage)
        daysOverPro == DaysOver(dailyUsage, "isOverPro")
        daysOverMax5x == DaysOver(dailyUsage, "isOverMax5x")
        daysOverMax20x == DaysOver(dailyUsage, "isOverMax20x")
        totalMessages == TotalMessages(dailyUsage)
        totalDays == Len(dailyUsage)
        rec == Recommend(peakDay, daysOverPro, daysOverMax5x)
        detected == Detected(report, plan)
        currentPrice == DetectedInfo(detected).price
        recommendedPrice == RecommendedInfo(rec.recommendation).price
    IN  [ peakMessages |-> peakDay.count,
          peakDate |-> peakDay.date,
          avgMessages |-> AvgMessages(totalMessages, totalDays),
          totalMessages |-> totalMessages,
          totalDays |-> totalDays,
          daysOverPro |-> daysOverPro,
          daysOverMax5x |-> daysOverMax5x,
          daysOverMax20x |-> daysOverMax20x,
          dailyUsage |-> dailyUsage,
          recommendation |-> rec.recommendation,
          recommendationReason |-> [reason |-> rec.reason, quoted |-> rec.quoted],
          currentPlan |-> detected,
          currentPrice |-> currentPrice,
          recommendedPrice |-> recommendedPrice,
          savings |-> Max(0, currentPrice - recommendedPrice),
          confidence |-> Confidence(totalDays) ]

\* analyzePlanFit is called on the report, with or without a current plan.
AnalyzePlanFit ==
    \E plan \in CurrentPlans :
        /\ currentPlan' = plan
        /\ planFit' = analyzePlanFit(data, plan)
        /\ UNCHANGED <<scanVars, cliVars, serveVars, appVars, data, analysis, lastLoad, reports, trends>>

InitPlanFit ==
    /\ ScanIdle
    /\ CliIdle
    /\ ServeIdle
    /\ AppIdle
    /\ data \in FitReports
    /\ analysis = NoAnalysis
    /\ lastLoad = "none"
    /\ currentPlan = Undefined
    /\ planFit = NoPlanFit
    /\ reports = << >>
    /\ trends = NoTrends

NextPlanFit == AnalyzePlanFit

SpecPlanFit == InitPlanFit /\ [][NextPlanFit]_vars

\* ------------------------------------------------ claims on the classifier
\* The counts of the by_day series of the report.
Counts == {data.usage.messages.by_day[i].count : i \in DOMAIN data.usage.messages.by_day}

\* The number of days whose count is strictly above `limit`.
DaysAbove(limit) ==
    Cardinality({i \in DOMAIN data.usage.messages.by_day :
                    data.usage.messages.by_day[i].count > limit})

\* C15: with the limits 100 and 500, the recommendation is the first match of:
\* some day above 500 -> max20x; peak >= 400 -> max5x; some day above 100 ->
\* max5x; peak >= 80 -> max5x; otherwise pro.  A day is over a limit only when
\* strictly above it, and daysOverPro / daysOverMax5x / daysOverMax20x are the
\* numbers of days strictly above 100 / 500 / 2000.
C15_RecommendationPriority ==
    planFit # NoPlanFit =>
        LET peak == SetMax(Counts)
        IN  /\ planFit.recommendation =
                 IF \E c \in Counts : c > 500 THEN "max20x"
                 ELSE IF peak >= 400 THEN "max5x"
                 ELSE IF \E c \in Counts : c > 100 THEN "max5x"
                 ELSE IF peak >= 80 THEN "max5x"
                 ELSE "pro"
            /\ planFit.daysOverPro = DaysAbove(100)
            /\ planFit.daysOverMax5x = DaysAbove(500)
            /\ planFit.daysOverMax20x = DaysAbove(2000)

\* A peak of exactly 500 on one day, 100 on another: no day is over the mid
\* limit, one is over the low limit, and the second rule decides.
C15_Witness ==
    /\ planFit # NoPlanFit
    /\ Counts = {500, 100}
    /\ planFit.recommendation = "max5x"
    /\ planFit.daysOverMax5x = 0
    /\ planFit.daysOverPro = 1

\* C16 as stated: for every non-empty by_day series, all-zero ones included,
\* peakMessages is the maximum count and peakDate the date of the first entry
\* that attains it.
C16_PeakIsFirstMaximum ==
    planFit # NoPlanFit =>
        LET by_day == data.usage.messages.by_day
            first == SetMin({i \in DOMAIN by_day : by_day[i].count = SetMax(Counts)})
        IN  /\ planFit.peakMessages = SetMax(Counts)
            /\ planFit.peakDate = by_day[first].date

\* C17 as stated: savings is max(0, price of the plan the user is on minus
\* price of the recommended plan), whatever plan.name is and whether or not
\* currentPlan is given; the user's plan is currentPlan when given, else the
\* plan of the report, whose price the report states.
C17_SavingsFromUsersPlan ==
    planFit # NoPlanFit =>
        LET userPrice == IF currentPlan # Undefined
                         THEN PLAN_LIMITS[currentPlan].price * Dollar
                         ELSE data.plan.price_usd
        IN  planFit.savings * Dollar =
              Max(0, userPrice - planFit.recommendedPrice * Dollar)

\* C18: confidence depends only on the number n of by_day entries: high when
\* n >= 30, medium when 14 <= n < 30, low when n < 14.
C18_ConfidenceByDays ==
    planFit # NoPlanFit =>
        LET n == Len(data.usage.messages.by_day)
        IN  /\ n >= 30 => planFit.confidence = "high"
            /\ (14 <= n /\ n < 30) => planFit.confidence = "medium"
            /\ n < 14 => planFit.confidence = "low"

\* Exactly 14 days of data, classified medium.
C18_Witness ==
    /\ planFit # NoPlanFit
    /\ Len(data.usage.messages.by_day) = 14
    /\ planFit.confidence = "medium"


\* The messagesPerDay limit of the recommended tier.
RecommendedLimit ==
    PLAN_LIMITS[ IF planFit.recommendation = "pro" THEN "Claude Pro"
                 ELSE IF planFit.recommendation = "max5x" THEN "Claude Max 5x"
                 ELSE "Claude Max 20x" ].messagesPerDay

\* C28 as stated: for every by_day series no day's count exceeds the
\* messagesPerDay limit of the recommended tier, which is at least
\* peakMessages.
C28_RecommendedCoversUsage ==
    planFit # NoPlanFit =>
        /\ \A c \in Counts : c <= RecommendedLimit
        /\ RecommendedLimit >= planFit.peakMessages

\* C28: the recommended tier covers every day's count when no day is above
\* the top tier's limit of 2000 messages; when some day is, the recommendation
\* is max20x and that day stays over its limit.
C28_RecommendedCoversUsageUpToTopTier ==
    planFit # NoPlanFit =>
        IF \A c \in Counts : c <= PLAN_LIMITS["Claude Max 20x"].messagesPerDay
        THEN /\ \A c \in Counts : c <= RecommendedLimit
             /\ RecommendedLimit >= planFit.peakMessages
        ELSE /\ planFit.recommendation = "max20x"
             /\ planFit.peakMessages > RecommendedLimit

\* A day of 501 messages, covered by the top tier, next to a day at the low
\* limit.
C28_Witness ==
    /\ planFit # NoPlanFit
    /\ Counts = {501, 100}
    /\ planFit.recommendation = "max20x"
    /\ planFit.peakMessages = 501
    /\ RecommendedLimit = 2000

\* ========================================================= Trend Aggregator
\* services/trendService.ts.  Time is counted in the ticks of the scan, two
\* to a day; a calendar month is taken to be thirty days long, and the month
\* key "YYYY-MM" is the number of the month, whose order is that of the keys
\* under localeCompare.
MaxReports == 3

\* Line 99: 1000 * 60 * 60 * 24 milliseconds, in ticks.
TicksPerDay == 2
TicksPerMonth == 60

\* constants.ts lines 224-247; prices in milli-dollars per million tokens.
ConstantsModelPricing ==
    "claude-opus-4-5-20251101" :> Price(15000, 75000) @@
    "claude-sonnet-4-5-20250929" :> Price(3000, 15000) @@
    "claude-3-5-sonnet-20241022" :> Price(3000, 15000) @@
    "claude-3-5-sonnet-20240620" :> Price(3000, 15000) @@
    "claude-3-opus-20240229" :> Price(15000, 75000) @@
    "claude-3-sonnet-20240229" :> Price(3000, 15000) @@
    "claude-3-5-haiku-20241022" :> Price(800, 4000) @@
    "claude-3-haiku-20240307" :> Price(250, 1250) @@
    "gpt-4o" :> Price(2500, 10000) @@
    "gpt-4o-2024-11-20" :> Price(2500, 10000) @@
    "gpt-4o-mini" :> Price(150, 600) @@
    "gpt-4-turbo" :> Price(10000, 30000) @@
    "gpt-4-turbo-2024-04-09" :> Price(10000, 30000) @@
    "gpt-4" :> Price(30000, 60000) @@
    "gpt-3.5-turbo" :> Price(500, 1500) @@
    "o1" :> Price(15000, 60000) @@
    "o1-mini" :> Price(3000, 12000) @@
    "o1-preview" :> Price(15000, 60000) @@
    "default" :> Price(5000, 20000)

\* A quotient of two numbers, as a fraction in lowest terms.
RECURSIVE GCD(_, _)
GCD(a, b) == IF b = 0 THEN a ELSE GCD(b, a % b)

Frac(n, d) ==
    LET g == GCD(Abs(n), d)
    IN  [num |-> n \div g, den |-> d \div g]

FracTimes(f, k) ==
    LET g == GCD(k, f.den)
    IN  [num |-> f.num * (k \div g), den |-> f.den \div g]

\* The token usage of the stored reports: a model both price tables have, a
\* model neither has, and no breakdown at all (which costs nothing here).
TrendTokens ==
    { [input |-> 1000, output |-> 0,
       by_model |-> "claude-3-opus-20240229" :> [input |-> 1000, output |-> 0]],
      [input |-> 2000, output |-> 0,
       by_model |-> "unknown" :> [input |-> 2000, output |-> 0]],
      [input |-> 1000, output |-> 1000, by_model |-> << >>] }

\* period.start: a tick in each of three months.
TrendStarts == {1, 61, 121}
\* period.end - period.start: a single instant, a day and a half, and a
\* period whose end lies a day and a half before its start.
TrendSpans == {0, 3, -3}

TrendReports ==
    { UsageReport([name |-> "Claude Pro", price_usd |-> 20 * Dollar],
                  tokens,
                  [count |-> 2, by_day |-> << >>],
                  [count |-> 1],
                  [start |-> start, end |-> start + span]) :
        tokens \in TrendTokens, start \in TrendStarts, span \in TrendSpans }

\* types.ts lines 54-59.
StoredReport(id, report) == [id |-> id, report |-> report, savedAt |-> 0]

\* Lines 7-18.
calculateReportCost(report) ==
    SumCostForModels(ConstantsModelPricing, report.usage.tokens.by_model,
                     DOMAIN report.usage.tokens.by_model)

\* Lines 27-28: the month key of period.start.
MonthKey(stored) == stored.report.period.start \div TicksPerMonth

\* grouped.set(monthKey, [stored]) for the push: the month's last report only.
groupReportsByMonth_Overwrite(stored, monthKey) ==
    LET all == SelectSeq(stored, LAMBDA s : MonthKey(s) = monthKey)
    IN  IF Len(all) = 0 THEN all ELSE <<all[Len(all)]>>

\* Lines 23-37: the reports of one month, in the order of `reports`.
groupReportsByMonth(stored, monthKey) ==
    SelectSeq(stored, LAMBDA s : MonthKey(s) = monthKey)

\* Lines 47-65: the TrendData of one month.
RECURSIVE MonthTrend(_, _)
MonthTrend(period, monthReports) ==
    IF Len(monthReports) = 0
    THEN [period |-> period, totalTokens |-> 0, totalCost |-> 0, inputTokens |-> 0,
          outputTokens |-> 0, messageCount |-> 0, sessionCount |-> 0]
    ELSE LET n == Len(monthReports)
             report == monthReports[n].report
             trend == MonthTrend(period, SubSeq(monthReports, 1, n - 1))
         IN  [ period |-> period,
               totalTokens |-> trend.totalTokens + report.usage.tokens.input
                                 + report.usage.tokens.output,
               totalCost |-> trend.totalCost + calculateReportCost(report),
               inputTokens |-> trend.inputTokens + report.usage.tokens.input,
               outputTokens |-> trend.outputTokens + report.usage.tokens.output,
               messageCount |-> trend.messageCount + report.usage.messages.count,
               sessionCount |-> trend.sessionCount + report.usage.sessions.count ]

\* Line 72: trends.sort((a, b) => a.period.localeCompare(b.period)).
RECURSIVE SortByPeriod(_, _)
SortByPeriod(stored, periods) ==
    IF periods = {} THEN << >>
    ELSE LET first == SetMin(periods)
         IN  <<MonthTrend(first, groupReportsByMonth(stored, first))>>
               \o SortByPeriod(stored, periods \ {first})

\* Lines 42-73.
calculateMonthlyTrends(stored) ==
    SortByPeriod(stored, {MonthKey(stored[i]) : i \in DOMAIN stored})

\* The change measured against the current month.
PercentChange_OverCurrent(monthlyData) ==
    LET n == Len(monthlyData)
    IN  IF n >= 2 /\ monthlyData[n].totalCost > 0
        THEN FracTimes(Frac(monthlyData[n].totalCost - monthlyData[n - 1].totalCost,
                            monthlyData[n].totalCost), 100)
        ELSE Frac(0, 1)

\* Lines 85-93.
PercentChange(monthlyData) ==
    LET n == Len(monthlyData)
    IN  IF n >= 2 /\ monthlyData[n - 1].totalCost > 0
        THEN FracTimes(Frac(monthlyData[n].totalCost - monthlyData[n - 1].totalCost,
                            monthlyData[n - 1].totalCost), 100)
        ELSE Frac(0, 1)

\* The day span without its floor of one day.
DaySpan_NoFloor(stored) ==
    (stored.report.period.end - stored.report.period.start + TicksPerDay - 1)
        \div TicksPerDay

\* Line 99: Math.max(1, Math.ceil((end - start) / day)).
DaySpan(stored) ==
    Max(1, (stored.report.period.end - stored.report.period.start + TicksPerDay - 1)
              \div TicksPerDay)

\* Lines 96-100.
RECURSIVE TotalDays(_)
TotalDays(stored) ==
    IF Len(stored) = 0 THEN 0 ELSE DaySpan(stored[1]) + TotalDays(Tail(stored))

\* Line 102.
RECURSIVE TotalCost(_)
TotalCost(monthlyData) ==
    IF Len(monthlyData) = 0 THEN 0
    ELSE monthlyData[1].totalCost + TotalCost(Tail(monthlyData))

\* analyzeUsageTrends asking for two reports before it reports a trend.
analyzeUsageTrends_NeedsTwo(stored) ==
    IF Len(stored) <= 1 THEN NoTrends
    ELSE LET monthlyData == calculateMonthlyTrends(stored)
             avgDailyCost == Frac(TotalCost(monthlyData), TotalDays(stored))
         IN  [ data |-> monthlyData,
               percentChange |-> PercentChange(monthlyData),
               avgDailyCost |-> avgDailyCost,
               projectedMonthlyCost |-> FracTimes(avgDailyCost, 30) ]

\* Lines 78-114.
analyzeUsageTrends(stored) ==
    IF Len(stored) = 0 THEN NoTrends
    ELSE LET monthlyData == calculateMonthlyTrends(stored)
             totalDays == TotalDays(stored)
             avgDailyCost == IF totalDays > 0 THEN Frac(TotalCost(monthlyData), totalDays)
                             ELSE Frac(0, 1)
         IN  IF Len(monthlyData) = 0 THEN NoTrends
             ELSE [ data |-> monthlyData,
                    percentChange |-> PercentChange(monthlyData),
                    avgDailyCost |-> avgDailyCost,
                    projectedMonthlyCost |-> FracTimes(avgDailyCost, 30) ]

\* AnalysisDashboard.tsx lines 930-931 (HistoryView): the view is rendered
\* with the stored reports, one more than before, and memoizes their trends.
RenderHistoryView ==
    /\ Len(reports) < MaxReports
    /\ \E report \in TrendReports :
          /\ reports' = Append(reports, StoredReport(Len(reports) + 1, report))
          /\ trends' = analyzeUsageTrends(reports')
    /\ UNCHANGED <<scanVars, cliVars, serveVars, appVars, data, analysis, lastLoad, currentPlan, planFit>>

InitTrend == ScanIdle /\ DashboardIdle /\ CliIdle /\ ServeIdle /\ AppIdle

NextTrend == RenderHistoryView

SpecTrend == InitTrend /\ [][NextTrend]_vars

\* --------------------------------------------------- claims on the trends
\* The reports of month `period` among the stored ones.
ReportsOfMonth(period) == {i \in DOMAIN reports : MonthKey(reports[i]) = period}

\* The sum of the Cost Estimator's unrounded costs of a set of stored reports.
RECURSIVE SumExactCost(_)
SumExactCost(ids) ==
    IF ids = {} THEN 0
    ELSE LET i == CHOOSE j \in ids : TRUE
         IN  ExactCost(reports[i].report) + SumExactCost(ids \ {i})

\* C19 as stated: the cost calculateMonthlyTrends adds to a month's totalCost
\* for a report is the unrounded API-equivalent cost that calculateAnalysis
\* computes for it, so that a month's totalCost is the sum of those costs over
\* its reports, reports with an empty by_model and model ids the price table
\* lacks included.
C19_TrendCostIsEstimatorCost ==
    trends # NoTrends =>
        \A k \in DOMAIN trends.data :
            trends.data[k].totalCost = SumExactCost(ReportsOfMonth(trends.data[k].period))

\* C20: percentChange is (latest.totalCost - previous.totalCost) /
\* previous.totalCost * 100 over the buckets of the two latest months, and it
\* is exactly 0 when there are fewer than two buckets or the previous
\* totalCost is 0.
C20_PercentChange ==
    trends # NoTrends =>
        LET months == {MonthKey(reports[i]) : i \in DOMAIN reports}
            n == Len(trends.data)
            latest == trends.data[n]
            previous == trends.data[n - 1]
        IN  /\ n = Cardinality(months)
            /\ (n < 2 \/ previous.totalCost = 0) => trends.percentChange = Frac(0, 1)
            /\ (n >= 2 /\ previous.totalCost # 0) =>
                  /\ latest.period = SetMax(months)
                  /\ previous.period = SetMax(months \ {latest.period})
                  /\ trends.percentChange =
                        FracTimes(Frac(latest.totalCost - previous.totalCost,
                                       previous.totalCost), 100)

\* Three months stored out of order, the last two costing 10 then 15 dollars:
\* a change of +50.
C20_Witness ==
    /\ trends # NoTrends
    /\ Len(trends.data) = 3
    /\ MonthKey(reports[1]) > MonthKey(reports[2])
    /\ trends.data[2].totalCost = 10 * Dollar
    /\ trends.data[3].totalCost = 15 * Dollar
    /\ trends.percentChange = Frac(50, 1)

\* C24: analyzeUsageTrends returns null exactly when the collection of stored
\* reports is empty; for a non-empty collection it returns a trend object
\* with at least one month bucket.
C24_NullIffEmpty ==
    /\ trends = NoTrends <=> Len(reports) = 0
    /\ trends # NoTrends => Len(trends.data) >= 1

\* One stored report, of no cost, and a trend object with its one bucket.
C24_Witness ==
    /\ Len(reports) = 1
    /\ trends # NoTrends
    /\ Len(trends.data) = 1
    /\ trends.data[1].totalCost = 0

\* The sum of a sequence of numbers.
RECURSIVE SumNumbers(_)
SumNumbers(numbers) ==
    IF Len(numbers) = 0 THEN 0 ELSE numbers[1] + SumNumbers(Tail(numbers))

\* The sum over the stored reports of what `of` reads from a report.
SumReports(stored, of(_)) ==
    SumNumbers([i \in DOMAIN stored |-> of(stored[i].report)])

\* C26: every stored report is in exactly one month bucket, the one of the
\* month of its period.start; the bucket keys are pairwise distinct and
\* ascending; the sums over the buckets of inputTokens, outputTokens,
\* messageCount and sessionCount are the sums over the reports; and
\* totalTokens = inputTokens + outputTokens in every bucket.
C26_MonthGroupingConserves ==
    trends # NoTrends =>
        LET buckets == trends.data
        IN  /\ \A i \in DOMAIN reports :
                 Cardinality({k \in DOMAIN buckets :
                                 buckets[k].period = MonthKey(reports[i])}) = 1
            /\ \A k \in 1 .. Len(buckets) - 1 : buckets[k].period < buckets[k + 1].period
            /\ \A k \in DOMAIN buckets : ReportsOfMonth(buckets[k].period) # {}
            /\ SumSeq(buckets, "inputTokens")
                  = SumReports(reports, LAMBDA r : r.usage.tokens.input)
            /\ SumSeq(buckets, "outputTokens")
                  = SumReports(reports, LAMBDA r : r.usage.tokens.output)
            /\ SumSeq(buckets, "messageCount")
                  = SumReports(reports, LAMBDA r : r.usage.messages.count)
            /\ SumSeq(buckets, "sessionCount")
                  = SumReports(reports, LAMBDA r : r.usage.sessions.count)
            /\ \A k \in DOMAIN buckets :
                  buckets[k].totalTokens = buckets[k].inputTokens + buckets[k].outputTokens

\* Two reports of one month and one of an earlier month stored after them.
C26_Witness ==
    /\ trends # NoTrends
    /\ Len(reports) = 3
    /\ Len(trends.data) = 2
    /\ MonthKey(reports[1]) = MonthKey(reports[2])
    /\ MonthKey(reports[3]) < MonthKey(reports[1])
    /\ trends.data[2].sessionCount = 2

\* The day span of a period: whole days, rounded up, at least one.
SpanInDays(period) ==
    LET ticks == period.end - period.start
        days == CHOOSE d \in -2 .. 2 : d * TicksPerDay >= ticks /\ (d - 1) * TicksPerDay < ticks
    IN  IF days < 1 THEN 1 ELSE days

\* C27: each report contributes max(1, ceil((period.end - period.start) / 1
\* day)) days, so totalDays is at least the number of reports, also with
\* single-instant and reversed periods; avgDailyCost is the sum of the
\* months' totalCost over totalDays, projectedMonthlyCost is 30 times that.
C27_DailyAverage ==
    trends # NoTrends =>
        LET totalDays == SumReports(reports, LAMBDA r : SpanInDays(r.period))
            totalCost == SumSeq(trends.data, "totalCost")
        IN  /\ totalDays >= Len(reports)
            /\ trends.avgDailyCost = Frac(totalCost, totalDays)
            /\ trends.projectedMonthlyCost = FracTimes(Frac(totalCost, totalDays), 30)

\* A reversed period, a single instant and a day and a half: four days.
C27_Witness ==
    /\ trends # NoTrends
    /\ Len(reports) = 3
    /\ reports[1].report.period.end < reports[1].report.period.start
    /\ reports[2].report.period.end = reports[2].report.period.start
    /\ reports[3].report.period.end > reports[3].report.period.start
    /\ SumReports(reports, LAMBDA r : SpanInDays(r.period)) = 4
    /\ trends.avgDailyCost.num > 0
    /\ trends.avgDailyCost = Frac(SumSeq(trends.data, "totalCost"), 4)

\* ============================================================ report loaders
\* The analyze command of the CLI (src/unnamed/part_000) and the Uploader's
\* processFile (components/Uploader.tsx) are each given a file.  A file's text
\* is not JSON, or JSON null, an array, a Claude conversations export, or an
\* object; an object is a UsageReport from which the parts in `lacks` are
\* missing.  Money is in micro-dollars, tokens in thousands.

\* The parts of a UsageReport (types.ts lines 8-30) a file may lack: provider,
\* usage, usage.tokens, usage.tokens.by_model, usage.messages.by_day, plan,
\* period.
Parts == {"provider", "usage", "tokens", "by_model", "by_day", "plan", "period"}

\* What lacks usage lacks all below it, what lacks tokens lacks by_model.
LackSets ==
    {L \in SUBSET Parts :
        /\ "usage" \in L => {"tokens", "by_day"} \subseteq L
        /\ "tokens" \in L => "by_model" \in L}

\* part_000 lines 9-21; prices in milli-dollars per million tokens.
CliModelPricing ==
    "claude-opus-4-5-20251101" :> Price(15000, 75000) @@
    "claude-sonnet-4-5-20250929" :> Price(3000, 15000) @@
    "claude-3-5-sonnet-20241022" :> Price(3000, 15000) @@
    "claude-3-5-sonnet-20240620" :> Price(3000, 15000) @@
    "claude-3-opus-20240229" :> Price(15000, 75000) @@
    "claude-3-sonnet-20240229" :> Price(3000, 15000) @@
    "claude-3-5-haiku-20241022" :> Price(800, 4000) @@
    "claude-3-haiku-20240307" :> Price(250, 1250) @@
    "gpt-4o" :> Price(2500, 10000) @@
    "gpt-4o-mini" :> Price(150, 600) @@
    "default" :> Price(5000, 20000)

\* The --price option: 20 when not given (the option's default), 100, or 0.
CliPrices == {0} \cup PlanPrices

\* The report the malformed files are cut from.
BaseReport ==
    UsageReport([name |-> "Claude Pro", price_usd |-> 20 * Dollar],
                [input |-> 6666, output |-> 0,
                 by_model |-> "unknown" :> [input |-> 6666, output |-> 0]],
                [count |-> 0, by_day |-> << >>],
                [count |-> 0],
                [start |-> 1, end |-> 1])

\* Uploader.tsx lines 112-167 on an export whose human texts are estimated at
\* 1.2M tokens and whose other texts at 1M, with Claude Pro selected.
ConvertedReport ==
    UsageReport([name |-> "Claude Pro", price_usd |-> 20 * Dollar],
                [input |-> 1200, output |-> 1000,
                 by_model |-> "Claude (estimated)" :> [input |-> 1200, output |-> 1000]],
                [count |-> 0, by_day |-> << >>],
                [count |-> 0],
                [start |-> 1, end |-> 1])

ReportFiles ==
    {[json |-> k, lacks |-> {}, report |-> BaseReport, price |-> p] :
        k \in {"missing", "invalid", "null", "array"}, p \in CliPrices}
      \cup {[json |-> "export", lacks |-> {}, report |-> ConvertedReport, price |-> p] :
              p \in CliPrices}
      \cup {[json |-> "object", lacks |-> L, report |-> BaseReport, price |-> p] :
              L \in LackSets \ {{}}, p \in CliPrices}
      \cup {[json |-> "object", lacks |-> {}, report |-> r, price |-> p] :
              r \in CostReports, p \in CliPrices}

\* part_000 lines 24-35.
calculateAPICost(report) ==
    SumCostForModels(CliModelPricing, report.usage.tokens.by_model,
                     DOMAIN report.usage.tokens.by_model)

\* Line 61: options.price || report.plan?.price_usd || 20.
PlanPriceOf(f) ==
    IF f.price # 0 THEN f.price
    ELSE IF "plan" \notin f.lacks /\ f.report.plan.price_usd # 0 THEN f.report.plan.price_usd
    ELSE 20 * Dollar

\* The command ends by an error message and exit code 1 ("message"), by a
\* TypeError it does not catch ("exception"), or normally ("ok"); `analysed`
\* says whether the Cost Analysis block was printed before that.
CliOutcome(exit, analysed, planPrice, apiCost) ==
    [ kind |-> "cli", exit |-> exit, analysed |-> analysed, planPrice |-> planPrice,
      apiCost |-> ToFixed2(apiCost), overpaying |-> planPrice - apiCost > 0 ]

\* part_000 lines 43-135.
analyzeCommandOutcome(f) ==
    IF f.json = "missing" THEN CliOutcome("message", FALSE, 0, 0)
    ELSE IF f.json = "invalid" THEN CliOutcome("message", FALSE, 0, 0)
    ELSE IF f.json # "object" THEN CliOutcome("exception", FALSE, 0, 0)
    ELSE IF {"usage", "tokens", "by_model"} \cap f.lacks # {}
    THEN CliOutcome("exception", FALSE, 0, 0)
    ELSE CliOutcome(IF "period" \in f.lacks THEN "exception" ELSE "ok",
                    TRUE, PlanPriceOf(f), calculateAPICost(f.report))

\* What the dashboard computes from a report handed to onDataLoaded
\* (App.tsx lines 94-96, AnalysisDashboard.tsx lines 62-63): calculateAnalysis
\* throws on a report without usage.tokens.by_model or plan.
LoadedOutcome(f) ==
    IF {"tokens", "by_model", "plan"} \cap f.lacks # {}
    THEN [kind |-> "loaded", analysed |-> FALSE, analysis |-> NoAnalysis]
    ELSE [kind |-> "loaded", analysed |-> TRUE, analysis |-> calculateAnalysis(f.report)]

UploadError == [kind |-> "error", analysed |-> FALSE, analysis |-> NoAnalysis]

\* Uploader.tsx lines 169-190.
processFileOutcome(f) ==
    IF f.json \in {"invalid", "null", "array"} THEN UploadError
    ELSE IF f.json = "export" THEN LoadedOutcome(f)
    ELSE IF {"usage", "provider"} \cap f.lacks = {} THEN LoadedOutcome(f)
    ELSE UploadError

\* `llm-usage analyze <file> --price <p>`.
analyzeCommand ==
    /\ cli' = analyzeCommandOutcome(file)
    /\ UNCHANGED <<scanVars, dashVars, serveVars, appVars, file, upload>>

\* The file is dropped on the Uploader; a dropped file has a text.
processFile ==
    /\ file.json # "missing"
    /\ upload' = processFileOutcome(file)
    /\ UNCHANGED <<scanVars, dashVars, serveVars, appVars, file, cli>>

InitLoad ==
    /\ ScanIdle
    /\ DashboardIdle
    /\ ServeIdle
    /\ AppIdle
    /\ file \in ReportFiles
    /\ cli = None
    /\ upload = None

NextLoad == analyzeCommand \/ processFile

SpecLoad == InitLoad /\ [][NextLoad]_vars

\* The file is a report file that does not match the UsageReport schema.
Malformed(f) ==
    \/ f.json \in {"invalid", "null", "array"}
    \/ f.json = "object" /\ f.lacks # {}

\* C21: a file that is not valid JSON, or is JSON lacking a required part of
\* the report shape, is turned down with a failure and never analysed, by the
\* analyze command of the CLI and by the upload path alike.  Any failure of
\* the command counts as turning the file down here, an uncaught TypeError as
\* much as a message of the command's own.
C21_MalformedFileRejected ==
    Malformed(file) =>
        /\ cli # None => cli.exit # "ok" /\ ~cli.analysed
        /\ upload # None => upload.kind = "error" /\ ~upload.analysed

\* C22: for every report and price, the API-equivalent cost and the
\* overpaying decision of the analyze command are apiEquivalentCost and
\* isOverpaying of calculateAnalysis on the same report and price.
C22_CliPrintsEstimatorVerdict ==
    (cli # None /\ cli.analysed /\ file.json = "object" /\ file.lacks = {}) =>
        LET verdict == calculateAnalysis([file.report EXCEPT !.plan.price_usd = cli.planPrice])
        IN  /\ cli.apiCost = verdict.apiEquivalentCost
            /\ cli.overpaying = verdict.isOverpaying

\* ============================================================== local server
\* The serve command (packages/cli/src/commands/serve.ts) and the requests its
\* server handles.  A response carries the options the handler gave to
\* scanClaudeUsage and the date window the scan derives from them.

\* --days of the serve command, and days= of a query string; 0: not given.
ServeDays == {0, 1, 2}

\* An incoming request; `at` is the clock reading when it is handled and
\* scanFails whether scanClaudeUsage rejects.
Requests ==
    [ kind : {"request"}, method : {"GET", "OPTIONS"},
      path : {"/api/health", "/api/usage", "/"}, days : ServeDays,
      at : {3, 4}, scanFails : BOOLEAN ]

\* Line 52: options.days ? { days: options.days } : {}.
ScanOptionsOf(server) ==
    [days |-> server.days, startDate |-> Null, endDate |-> Null, verbose |-> FALSE]

\* Lines 30-67: the request handler.  The query string is cut off at line 44.
HandleRequest(server, req) ==
    IF req.method = "OPTIONS" THEN [kind |-> "response", status |-> 204, scanned |-> FALSE]
    ELSE IF req.path = "/api/health" THEN [kind |-> "response", status |-> 200, scanned |-> FALSE]
    ELSE IF req.path = "/api/usage"
    THEN IF req.scanFails
         THEN [kind |-> "response", status |-> 500, scanned |-> FALSE]
         ELSE LET scanOptions == ScanOptionsOf(server)
                  s == InitScan(scanOptions, req.at)
              IN  [ kind |-> "response", status |-> 200, scanned |-> TRUE,
                    scanOptions |-> scanOptions,
                    startDate |-> s.startDate, endDate |-> s.endDate ]
    ELSE [kind |-> "response", status |-> 404, scanned |-> FALSE]

\* Lines 12-29, 69: `llm-usage serve [--days N]` with Claude data present.
serveCommand ==
    /\ served = None
    /\ \E d \in ServeDays : served' = [kind |-> "server", days |-> d]
    /\ UNCHANGED <<scanVars, dashVars, cliVars, appVars, request, response>>

\* Lines 30-67: the server handles one request.
Serve ==
    /\ served # None
    /\ \E req \in Requests :
          /\ request' = req
          /\ response' = HandleRequest(served, req)
    /\ UNCHANGED <<scanVars, dashVars, cliVars, appVars, served>>

\* Lines 72-79: SIGINT closes the server.
Shutdown ==
    /\ served # None
    /\ served' = None
    /\ UNCHANGED <<scanVars, dashVars, cliVars, appVars, request, response>>

InitServe == ScanIdle /\ DashboardIdle /\ CliIdle /\ AppIdle /\ ServeIdle

NextServe == serveCommand \/ Serve \/ Shutdown

SpecServe == InitServe /\ [][NextServe]_vars

\* C23: GET /api/usage?days=N is answered with a report of a scan over the
\* trailing N days, N being the days value of the request's query string; a
\* request without it is answered with the report over all data, or over the
\* days the server was started with.
C23_QueryDaysSetTheWindow ==
    [][ (served # None /\ served' = served /\ response' # None /\ response'.scanned) =>
            IF request'.days # 0
            THEN /\ response'.startDate = request'.at - 2 * request'.days
                 /\ response'.endDate = request'.at
            ELSE IF served.days # 0
            THEN /\ response'.startDate = request'.at - 2 * served.days
                 /\ response'.endDate = request'.at
            ELSE /\ response'.startDate = Null
                 /\ response'.endDate = Null ]_vars

\* =========================================================== report storage
\* storageService (src/unnamed/part_003): the history kept in localStorage
\* under 'llm_usage_history'.  generateId yields fresh ids, modelled by a
\* counter; the counter also stands for the clock that stamps savedAt.

MaxIds == 2
MaxBackup == 2
MaxStored == 3

\* Line 10.
MAX_HISTORY_ITEMS == 50

\* An id generateId never yields: one carried by a backup of another browser.
ForeignId == 99

\* Reports the storage is given: two periods, one provider.
StorageReports ==
    { UsageReport([name |-> "Claude Pro", price_usd |-> 20 * Dollar],
                  [input |-> 0, output |-> 0, by_model |-> << >>],
                  [count |-> 0, by_day |-> << >>],
                  [count |-> 0],
                  [start |-> start, end |-> start]) : start \in {1, 61} }

\* Lines 12-15, 40-45: the entry saveReport builds.
NewStored(id, report) ==
    [id |-> id, report |-> report, savedAt |-> id, name |-> "Anthropic - Jan 2025"]

\* Lines 37-57.
SaveReport(h, stored) ==
    LET unshifted == <<stored>> \o h
    IN  IF Len(unshifted) > MAX_HISTORY_ITEMS
        THEN SubSeq(unshifted, 1, Len(unshifted) - 1)
        ELSE unshifted

\* Lines 82-85.
DeleteReport(h, id) == SelectSeq(h, LAMBDA r : r.id # id)

\* Lines 90-97: the first entry with the id gets the name.
RenameReport(h, id, name) ==
    IF \E i \in DOMAIN h : h[i].id = id
    THEN LET first == CHOOSE i \in DOMAIN h :
                          h[i].id = id /\ \A j \in 1 .. i - 1 : h[j].id # id
         IN  [h EXCEPT ![first].name = name]
    ELSE h

\* Lines 147-154; the reports of the model have one provider.
FindDuplicateReport(h, report) ==
    LET same == {i \in DOMAIN h : /\ h[i].report.period.start = report.period.start
                                  /\ h[i].report.period.end = report.period.end}
    IN  IF same = {} THEN NoId ELSE h[SetMin(same)].id

\* Lines 183-191: every entry of the backup whose id is not among the ids
\* stored before the import is pushed.
MergeBackup(existing, ids, incoming) ==
    existing \o SelectSeq(incoming, LAMBDA r : r.id \notin ids)

\* Line 194: existing.sort by savedAt, newest first; the sort is stable.
RECURSIVE SortBySavedAt(_)
SortBySavedAt(h) ==
    IF Len(h) = 0 THEN h
    ELSE LET sorted == SortBySavedAt(SubSeq(h, 1, Len(h) - 1))
             x == h[Len(h)]
             k == Cardinality({i \in DOMAIN sorted : sorted[i].savedAt >= x.savedAt})
         IN  SubSeq(sorted, 1, k) \o <<x>> \o SubSeq(sorted, k + 1, Len(sorted))

\* Lines 172-208; a backup that does not parse or has no history array leaves
\* the stored history as it is.
ImportAll(h, backup) ==
    IF backup.json # "object" \/ ~backup.hasHistory THEN h
    ELSE LET merged == MergeBackup(h, {h[i].id : i \in DOMAIN h}, backup.history)
             sorted == SortBySavedAt(merged)
         IN  SubSeq(sorted, 1, IF Len(sorted) < MAX_HISTORY_ITEMS THEN Len(sorted)
                                ELSE MAX_HISTORY_ITEMS)

\* The texts given to importAll: text that is not JSON, JSON without a
\* history array, and backups of up to MaxBackup entries whose ids are ids
\* generated so far or foreign, saved before or after this browser's entries.
Backups(n) ==
    LET entries == [ id : (1 .. n - 1) \cup {ForeignId},
                     report : {CHOOSE r \in StorageReports : TRUE},
                     savedAt : {0, ForeignId}, name : {"renamed"} ]
    IN  {[json |-> "invalid", hasHistory |-> FALSE, history |-> << >>],
         [json |-> "object", hasHistory |-> FALSE, history |-> << >>]}
          \cup UNION { {[json |-> "object", hasHistory |-> TRUE, history |-> b] :
                           b \in [1 .. len -> entries]} : len \in 0 .. MaxBackup }

saveReport ==
    /\ nextId <= MaxIds
    /\ \E report \in StorageReports :
          history' = SaveReport(history, NewStored(nextId, report))
    /\ nextId' = nextId + 1
    /\ UNCHANGED <<scanVars, dashVars, cliVars, serveVars, viewMode, currentReportId,
                   savedReports, showHistory, isLiveData>>

deleteReport ==
    /\ \E id \in (1 .. nextId - 1) \cup {ForeignId} : history' = DeleteReport(history, id)
    /\ UNCHANGED <<scanVars, dashVars, cliVars, serveVars, viewMode, currentReportId,
                   savedReports, showHistory, isLiveData, nextId>>

renameReport ==
    /\ \E id \in (1 .. nextId - 1) \cup {ForeignId}, name \in {"Anthropic - Jan 2025", "renamed"} :
          history' = RenameReport(history, id, name)
    /\ UNCHANGED <<scanVars, dashVars, cliVars, serveVars, viewMode, currentReportId,
                   savedReports, showHistory, isLiveData, nextId>>

importAll ==
    /\ \E backup \in Backups(nextId) :
          /\ Len(history) + Len(backup.history) <= MaxStored
          /\ history' = ImportAll(history, backup)
    /\ UNCHANGED <<scanVars, dashVars, cliVars, serveVars, viewMode, currentReportId,
                   savedReports, showHistory, isLiveData, nextId>>

\* The browser with an empty localStorage and the App just mounted.
InitApp == ScanIdle /\ DashboardIdle /\ CliIdle /\ ServeIdle /\ AppIdle

NextStorage == saveReport \/ deleteReport \/ renameReport \/ importAll

SpecStorage == InitApp /\ [][NextStorage]_vars

\* C30: the stored history never holds two entries with the same id, after
\* any sequence of saveReport, deleteReport, renameReport and importAll from
\* the empty history, backups listing an id more than once included.
C30_StoredIdsDistinct ==
    \A i, j \in DOMAIN history : history[i].id = history[j].id => i = j

\* ====================================================================== App
\* The handlers of App.tsx over the storage service, each enabled where the
\* element that calls it is rendered (App.tsx lines 188-277).  The polling of
\* the local server (liveServerConnected) is display only and left out.

\* constants.ts lines 287-330: the demo report, tokens in thousands, with the
\* first two of its days.
MOCK_DATA ==
    UsageReport([name |-> "Claude Pro", price_usd |-> 20 * Dollar],
                [input |-> 450, output |-> 120,
                 by_model |-> "claude-3-5-sonnet-20240620" :> [input |-> 300, output |-> 90] @@
                              "claude-3-opus-20240229" :> [input |-> 50, output |-> 10] @@
                              "claude-3-haiku-20240307" :> [input |-> 100, output |-> 20]],
                [count |-> 145,
                 by_day |-> << [date |-> 1, count |-> 5, input |-> 15, output |-> 2],
                               [date |-> 2, count |-> 12, input |-> 35, output |-> 8] >>],
                [count |-> 12],
                [start |-> 1, end |-> 62])

\* Lines 94-114.
handleDataLoaded ==
    /\ viewMode = "uploader"
    /\ \E uploadedData \in StorageReports, fromLiveServer \in BOOLEAN :
          /\ data' = uploadedData
          /\ viewMode' = "dashboard"
          /\ isLiveData' = fromLiveServer
          /\ IF currentReportId = NoId
             THEN LET duplicate == FindDuplicateReport(history, uploadedData)
                  IN  IF duplicate = NoId
                      THEN /\ nextId <= MaxIds
                           /\ history' = SaveReport(history, NewStored(nextId, uploadedData))
                           /\ nextId' = nextId + 1
                           /\ savedReports' = history'
                           /\ currentReportId' = nextId
                      ELSE /\ currentReportId' = duplicate
                           /\ UNCHANGED <<history, nextId, savedReports>>
             ELSE UNCHANGED <<history, nextId, savedReports, currentReportId>>
    /\ UNCHANGED <<scanVars, cliVars, serveVars, analysis, lastLoad, currentPlan, planFit,
                   reports, trends, showHistory>>

\* Lines 116-121.
handleLoadDemo ==
    /\ viewMode = "uploader"
    /\ data' = MOCK_DATA
    /\ currentReportId' = NoId
    /\ isLiveData' = FALSE
    /\ viewMode' = "dashboard"
    /\ UNCHANGED <<scanVars, cliVars, serveVars, analysis, lastLoad, currentPlan, planFit,
                   reports, trends, savedReports, showHistory, history, nextId>>

\* Lines 123-131; the button is rendered in the dashboard view.
handleReset ==
    /\ viewMode = "dashboard"
    /\ data' = NoReport
    /\ currentReportId' = NoId
    /\ isLiveData' = FALSE
    /\ viewMode' = "uploader"
    /\ UNCHANGED <<scanVars, cliVars, serveVars, analysis, lastLoad, currentPlan, planFit,
                   reports, trends, savedReports, showHistory, history, nextId>>

\* Lines 133-135; the button is rendered with a saved report, outside trends.
handleViewTrends ==
    /\ Len(savedReports) >= 1
    /\ viewMode # "trends"
    /\ viewMode' = "trends"
    /\ UNCHANGED <<scanVars, dashVars, cliVars, serveVars, currentReportId, savedReports,
                   showHistory, isLiveData, history, nextId>>

\* Lines 137-139.
handleBackFromTrends ==
    /\ viewMode = "trends"
    /\ viewMode' = IF data # NoReport THEN "dashboard" ELSE "uploader"
    /\ UNCHANGED <<scanVars, dashVars, cliVars, serveVars, currentReportId, savedReports,
                   showHistory, isLiveData, history, nextId>>

\* Line 202: the history menu is opened or closed.
ToggleHistory ==
    /\ Len(savedReports) > 0
    /\ viewMode # "trends"
    /\ showHistory' = ~showHistory
    /\ UNCHANGED <<scanVars, dashVars, cliVars, serveVars, viewMode, currentReportId,
                   savedReports, isLiveData, history, nextId>>

\* The entries of the open history menu.
MenuEntries ==
    IF showHistory /\ viewMode # "trends" THEN DOMAIN savedReports ELSE {}

\* Lines 141-147.
handleLoadFromHistory ==
    /\ \E i \in MenuEntries :
          /\ data' = savedReports[i].report
          /\ currentReportId' = savedReports[i].id
    /\ isLiveData' = FALSE
    /\ showHistory' = FALSE
    /\ viewMode' = "dashboard"
    /\ UNCHANGED <<scanVars, cliVars, serveVars, analysis, lastLoad, currentPlan, planFit,
                   reports, trends, savedReports, history, nextId>>

\* Lines 149-159.
handleDeleteFromHistory ==
    /\ \E i \in MenuEntries :
          LET id == savedReports[i].id
          IN  /\ history' = DeleteReport(history, id)
              /\ savedReports' = history'
              /\ IF currentReportId = id
                 THEN data' = NoReport /\ currentReportId' = NoId
                 ELSE UNCHANGED <<data, currentReportId>>
    /\ UNCHANGED <<scanVars, cliVars, serveVars, analysis, lastLoad, currentPlan, planFit,
                   reports, trends, viewMode, showHistory, isLiveData, nextId>>

NextApp ==
    \/ handleDataLoaded
    \/ handleLoadDemo
    \/ handleReset
    \/ handleViewTrends
    \/ handleBackFromTrends
    \/ ToggleHistory
    \/ handleLoadFromHistory
    \/ handleDeleteFromHistory

SpecApp == InitApp /\ [][NextApp]_vars

\* C29: after handleDeleteFromHistory of the report on display the view mode
\* is 'uploader', and in every state the handlers reach the view mode is
\* 'dashboard' only while data is non-null.
C29_DashboardOnlyWithData ==
    viewMode = "dashboard" => data # NoReport

====
